---- MODULE Spec2Model ----
(***************************************************************************)
(* Math Research Copilot (app(1).py): a Generator / Critic loop that folds *)
(* accepted ideas back into the running context.                           *)
(*                                                                         *)
(* A text is a sequence of string fragments; Python's string concatenation *)
(* is \o.  A decoded JSON value is a record [t, n, s]: t is its type, n    *)
(* its number (when t = "int"), s its text (when t = "str").  A key that   *)
(* a decoded object does not hold has the value JAbsent.                   *)
(***************************************************************************)
EXTENDS Integers, Sequences, FiniteSets, TLC

VARIABLES
    pc,               \* position of the script
    error,            \* the uncaught exception that ended the script, or "none"
    api_key,          \* the sidebar key was entered
    start_btn,        \* the start button was pressed
    original_text,    \* the text area's value
    iterations,       \* the slider's value
    i,                \* the loop variable of `for i in range(iterations)`
    current_context,
    final_ideas,
    raw_idea,         \* the Generator's result of the running iteration
    review,           \* the Critic's result of the running iteration
    model_name,       \* agent_critic's local model_name at its last return
    handle,           \* the model identifier agent_critic's handle was built with
    path,             \* how agent_critic last returned: "decoded" or "except"
    gen_env,          \* what the provider did during the last agent_generator call
    critic_env,       \* what the provider did during the last agent_critic call
    log,              \* the expanders written into log_container
    calls,            \* the calls of agent_generator / agent_critic, in order
    candidates,       \* the values agent_generator returned, in order
    reviews           \* the values agent_critic returned, in order

vars ==
    <<pc, error, api_key, start_btn, original_text, iterations, i,
      current_context, final_ideas, raw_idea, review, model_name, handle,
      path, gen_env, critic_env, log, calls, candidates, reviews>>

-----------------------------------------------------------------------------
(* Bounds and program constants *)

MaxIterations ==
    3

Threshold ==
    7

PreferredModel ==
    "gemini-2.5-flash"

AlternateModel ==
    "gemini-1.5-pro"

-----------------------------------------------------------------------------
(* JSON values and their text rendering *)

JAbsent ==
    [t |-> "absent", n |-> 0, s |-> << >>]

JNull ==
    [t |-> "null", n |-> 0, s |-> << >>]

JInt(n) ==
    [t |-> "int", n |-> n, s |-> << >>]

JStr(s) ==
    [t |-> "str", n |-> 0, s |-> s]

\* str(v) as an f-string renders a decoded value: a text as itself, None as
\* "None", an integer in decimal.
Fmt(v) ==
    CASE v.t = "str" -> v.s
      [] v.t = "int" -> <<ToString(v.n)>>
      [] OTHER -> <<"None">>

\* A decoded JSON object with the three keys of ReviewSchema (each possibly
\* absent), or a decoded value that is no object.
Dict(score, critique, improved_version) ==
    [isdict |-> TRUE, score |-> score, critique |-> critique,
     improved_version |-> improved_version]

NonDict ==
    [isdict |-> FALSE, score |-> JAbsent, critique |-> JAbsent,
     improved_version |-> JAbsent]

NoReview ==
    Dict(JAbsent, JAbsent, JAbsent)

\* dict.get(key, default)
Get(v, default) ==
    IF v.t = "absent" THEN default ELSE v

-----------------------------------------------------------------------------
(* What the provider and the UI can do: the inputs of a run *)

Seeds ==
    {<< >>, <<"A.">>}

GenTexts ==
    {<<"x">>}

\* str(e) of the exception a failing request raises; the empty message is the
\* shortest candidate an error can yield.
GenErrors ==
    {<< >>}

\* One behaviour of the provider during a call of agent_generator.
NoGeneratorEnv ==
    [construct_ok |-> FALSE, request_ok |-> FALSE, text |-> << >>, err |-> << >>]

GeneratorEnvs ==
    {NoGeneratorEnv}
    \cup {[construct_ok |-> TRUE, request_ok |-> TRUE, text |-> t, err |-> << >>] :
             t \in GenTexts}
    \cup {[construct_ok |-> TRUE, request_ok |-> FALSE, text |-> << >>, err |-> e] :
             e \in GenErrors}

\* The values a well-formed response body can decode to.
DecodedValues ==
    { NonDict,
      Dict(JInt(6), JStr(<<"weak">>), JStr(<<"y">>)),
      Dict(JInt(7), JStr(<<"good">>), JStr(<<"y">>)),
      Dict(JInt(8), JStr(<<"good">>), JStr(<< >>)),
      Dict(JInt(7), JStr(<<"good">>), JNull),
      Dict(JAbsent, JStr(<<"good">>), JStr(<<"y">>)),
      Dict(JInt(7), JAbsent, JStr(<<"z">>)),
      Dict(JInt(6), JStr(<<"weak">>), JAbsent),
      Dict(JInt(7), JStr(<<"good">>), JAbsent),
      Dict(JStr(<<"high">>), JStr(<<"good">>), JStr(<<"y">>)) }

\* One behaviour of the provider during a call of agent_critic: whether each
\* construction of a model handle succeeds, whether the request succeeds, and
\* the response body (well-formed JSON text of a value, or not).
NoCriticEnv ==
    [construct_ok |-> FALSE, fallback_ok |-> FALSE, request_ok |-> FALSE,
     wellformed |-> FALSE, value |-> NonDict, err |-> << >>]

CriticEnvs ==
    {NoCriticEnv}
    \cup {[construct_ok |-> c, fallback_ok |-> TRUE, request_ok |-> FALSE,
           wellformed |-> FALSE, value |-> NonDict, err |-> <<"quota">>] :
             c \in BOOLEAN}
    \cup {[construct_ok |-> c, fallback_ok |-> TRUE, request_ok |-> TRUE,
           wellformed |-> FALSE, value |-> NonDict, err |-> <<"Expecting value">>] :
             c \in BOOLEAN}
    \cup {[construct_ok |-> c, fallback_ok |-> TRUE, request_ok |-> TRUE,
           wellformed |-> TRUE, value |-> v, err |-> << >>] :
             c \in BOOLEAN, v \in DecodedValues}

-----------------------------------------------------------------------------
(* The agents *)

\* agent_generator: the handle is built outside the try block, so a failing
\* construction raises; a failing request returns the error as the candidate.
agent_generator(context, current_ideas, env) ==
    IF ~env.construct_ok
    THEN [raised |-> TRUE, value |-> << >>]
    ELSE IF env.request_ok
         THEN [raised |-> FALSE, value |-> env.text]
         ELSE [raised |-> FALSE, value |-> <<"Generator Error: ">> \o env.err]

\* json.loads(response.text): raises on text that is no JSON, and otherwise
\* returns the decoded value whatever its shape.
json_loads(env) ==
    [raised |-> ~env.wellformed, value |-> env.value]

\* A fallback record that forgets the candidate.
CriticFallbackLosesIdea(idea, name, e) ==
    Dict(JInt(0), JStr(<<"Critic Error (", name, "): ">> \o e), JStr(<< >>))

\* The record agent_critic returns from its except branch.
CriticFallback(idea, name, e) ==
    Dict(JInt(0), JStr(<<"Critic Error (", name, "): ">> \o e), JStr(idea))

\* agent_critic: model_name is assigned once; the handle is built with it or,
\* when that raises, with the alternate model (outside any try block); the
\* request and the decoding are inside one try block.
agent_critic(idea, context, env) ==
    LET name == PreferredModel
        built == IF env.construct_ok THEN PreferredModel ELSE AlternateModel
        decoded == json_loads(env)
    IN  IF ~env.construct_ok /\ ~env.fallback_ok
        THEN [raised |-> TRUE, value |-> NoReview, model_name |-> name,
              handle |-> "none", path |-> "raise"]
        ELSE IF env.request_ok /\ ~decoded.raised
             THEN [raised |-> FALSE, value |-> decoded.value, model_name |-> name,
                   handle |-> built, path |-> "decoded"]
             ELSE [raised |-> FALSE, value |-> CriticFallback(idea, name, env.err),
                   model_name |-> name, handle |-> built, path |-> "except"]

-----------------------------------------------------------------------------
(* The main loop's decision *)

\* review.get('score', 0)
ScoreOf(rv) ==
    Get(rv.score, JInt(0))

\* The threshold taken as exclusive.
AcceptsStrict(rv) ==
    ScoreOf(rv).n > Threshold

\* The threshold set one too low.
AcceptsLow(rv) ==
    ScoreOf(rv).n >= Threshold - 1

\* review.get('score', 0) >= 7
Accepts(rv) ==
    ScoreOf(rv).n >= Threshold

\* The block labelled with the 0-based loop variable.
ExtensionBlockZeroBased(k, improved_version) ==
    <<"\n\n[Extension ", ToString(k), "]: ">> \o Fmt(improved_version)

\* f"\n\n[Extension {i+1}]: {review['improved_version']}"
ExtensionBlock(k, improved_version) ==
    <<"\n\n[Extension ", ToString(k + 1), "]: ">> \o Fmt(improved_version)

\* The expander written for iteration k.
LogEntry(k, idea, rv) ==
    [index |-> k + 1, score |-> ScoreOf(rv), draft |-> idea,
     critique |-> Fmt(Get(rv.critique, JNull))]

\* The call of line 180 and its arguments, for iteration k.
GenCall(k, context, ideas) ==
    [fn |-> "generator", index |-> k + 1, context |-> context, ideas |-> ideas,
     idea |-> << >>]

\* The Critic handed the seed text instead of the running context.
CriticCallSeedContext(k, idea, context) ==
    [fn |-> "critic", index |-> k + 1, context |-> original_text,
     ideas |-> << >>, idea |-> idea]

\* The call of line 184 and its arguments, for iteration k.
CriticCall(k, idea, context) ==
    [fn |-> "critic", index |-> k + 1, context |-> context, ideas |-> << >>,
     idea |-> idea]

-----------------------------------------------------------------------------
(* The script *)

Init ==
    /\ pc = "start"
    /\ error = "none"
    /\ api_key \in BOOLEAN
    /\ start_btn \in BOOLEAN
    /\ original_text \in Seeds
    /\ iterations \in 1..MaxIterations
    /\ i = 0
    /\ current_context = << >>
    /\ final_ideas = << >>
    /\ raw_idea = << >>
    /\ review = NoReview
    /\ model_name = "none"
    /\ handle = "none"
    /\ path = "none"
    /\ gen_env = NoGeneratorEnv
    /\ critic_env = NoCriticEnv
    /\ log = << >>
    /\ calls = << >>
    /\ candidates = << >>
    /\ reviews = << >>

\* No key: st.stop().
NoKey ==
    /\ pc = "start"
    /\ ~api_key
    /\ pc' = "stopped"
    /\ UNCHANGED <<error, api_key, start_btn, original_text, iterations, i,
                   current_context, final_ideas, raw_idea, review, model_name,
                   handle, path, gen_env, critic_env, log, calls, candidates,
                   reviews>>

\* `if start_btn and original_text` is false: the page is drawn, nothing runs.
NoRun ==
    /\ pc = "start"
    /\ api_key
    /\ ~(start_btn /\ original_text # << >>)
    /\ pc' = "idle"
    /\ UNCHANGED <<error, api_key, start_btn, original_text, iterations, i,
                   current_context, final_ideas, raw_idea, review, model_name,
                   handle, path, gen_env, critic_env, log, calls, candidates,
                   reviews>>

StartRun ==
    /\ pc = "start"
    /\ api_key
    /\ start_btn /\ original_text # << >>
    /\ final_ideas' = << >>
    /\ current_context' = original_text
    /\ i' = 0
    /\ pc' = "gen"
    /\ UNCHANGED <<error, api_key, start_btn, original_text, iterations,
                   raw_idea, review, model_name, handle, path, gen_env,
                   critic_env, log, calls, candidates, reviews>>

\* raw_idea = agent_generator(current_context, final_ideas)
Generate ==
    /\ pc = "gen"
    /\ i < iterations
    /\ \E env \in GeneratorEnvs :
         LET c == GenCall(i, current_context, final_ideas)
             r == agent_generator(c.context, c.ideas, env)
         IN  /\ calls' = Append(calls, c)
             /\ gen_env' = env
             /\ IF r.raised
                THEN /\ pc' = "crashed"
                     /\ error' = "generator: model construction"
                     /\ UNCHANGED <<raw_idea, candidates>>
                ELSE /\ pc' = "critic"
                     /\ raw_idea' = r.value
                     /\ candidates' = Append(candidates, r.value)
                     /\ UNCHANGED error
    /\ UNCHANGED <<api_key, start_btn, original_text, iterations, i,
                   current_context, final_ideas, review, model_name, handle,
                   path, critic_env, log, reviews>>

\* review = agent_critic(raw_idea, current_context)
Critique ==
    /\ pc = "critic"
    /\ \E env \in CriticEnvs :
         LET c == CriticCall(i, raw_idea, current_context)
             r == agent_critic(c.idea, c.context, env)
         IN  /\ calls' = Append(calls, c)
             /\ critic_env' = env
             /\ model_name' = r.model_name
             /\ handle' = r.handle
             /\ path' = r.path
             /\ IF r.raised
                THEN /\ pc' = "crashed"
                     /\ error' = "critic: model construction"
                     /\ UNCHANGED <<review, reviews>>
                ELSE /\ pc' = "decide"
                     /\ review' = r.value
                     /\ reviews' = Append(reviews, r.value)
                     /\ UNCHANGED error
    /\ UNCHANGED <<api_key, start_btn, original_text, iterations, i,
                   current_context, final_ideas, raw_idea, gen_env, log,
                   candidates>>

\* Display and decide, then the loop's next i.
Decide ==
    /\ pc = "decide"
    /\ IF ~review.isdict
       THEN \* review.get on a value that is no dict
            /\ pc' = "crashed"
            /\ error' = "AttributeError"
            /\ UNCHANGED <<i, current_context, final_ideas, log>>
       ELSE /\ log' = Append(log, LogEntry(i, raw_idea, review))
            /\ IF ScoreOf(review).t # "int"
               THEN \* a score that does not compare with 7
                    /\ pc' = "crashed"
                    /\ error' = "TypeError"
                    /\ UNCHANGED <<i, current_context, final_ideas>>
               ELSE IF Accepts(review)
                    THEN IF review.improved_version.t = "absent"
                         THEN /\ pc' = "crashed"
                              /\ error' = "KeyError"
                              /\ UNCHANGED <<i, current_context, final_ideas>>
                         ELSE /\ final_ideas' =
                                   Append(final_ideas, review.improved_version)
                              /\ current_context' = current_context \o
                                   ExtensionBlock(i, review.improved_version)
                              /\ i' = i + 1
                              /\ pc' = "gen"
                              /\ UNCHANGED error
                    ELSE /\ i' = i + 1
                         /\ pc' = "gen"
                         /\ UNCHANGED <<error, current_context, final_ideas>>
    /\ UNCHANGED <<api_key, start_btn, original_text, iterations, raw_idea,
                   review, model_name, handle, path, gen_env, critic_env, calls,
                   candidates, reviews>>

\* range(iterations) is exhausted: "Research Loop Complete!" and the report.
Finish ==
    /\ pc = "gen"
    /\ i = iterations
    /\ pc' = "complete"
    /\ UNCHANGED <<error, api_key, start_btn, original_text, iterations, i,
                   current_context, final_ideas, raw_idea, review, model_name,
                   handle, path, gen_env, critic_env, log, calls, candidates,
                   reviews>>

Next ==
    \/ NoKey
    \/ NoRun
    \/ StartRun
    \/ Generate
    \/ Critique
    \/ Decide
    \/ Finish

Spec ==
    Init /\ [][Next]_vars

-----------------------------------------------------------------------------
(* Vocabulary of the properties *)

Started ==
    pc \in {"gen", "critic", "decide", "complete", "crashed"}

IsPrefix(s, t) ==
    /\ Len(s) <= Len(t)
    /\ SubSeq(t, 1, Len(s)) = s

\* The review carries a numeric score of at least 7 / below 7.
ScoreAtLeast7(rv) ==
    rv.isdict /\ rv.score.t = "int" /\ rv.score.n >= 7

ScoreBelow7(rv) ==
    rv.isdict /\ rv.score.t = "int" /\ rv.score.n < 7

\* The seed followed by the blocks of the accepted iterations among 1..k,
\* computed from the reviews the Critic returned.
RECURSIVE ExpectedContext(_)
ExpectedContext(k) ==
    IF k = 0
    THEN original_text
    ELSE IF ScoreAtLeast7(reviews[k])
         THEN ExpectedContext(k - 1)
                \o <<"\n\n[Extension ", ToString(k), "]: ">>
                \o Fmt(reviews[k].improved_version)
         ELSE ExpectedContext(k - 1)

\* The improved versions of the accepted iterations among 1..k, in order.
RECURSIVE ExpectedIdeas(_)
ExpectedIdeas(k) ==
    IF k = 0
    THEN << >>
    ELSE IF ScoreAtLeast7(reviews[k])
         THEN Append(ExpectedIdeas(k - 1), reviews[k].improved_version)
         ELSE ExpectedIdeas(k - 1)

\* The three-field shape of ReviewSchema.
WellShaped(v) ==
    /\ v.isdict
    /\ v.score.t # "absent"
    /\ v.critique.t # "absent"
    /\ v.improved_version.t # "absent"

\* The provider made the last Critic request fail, or sent text that is no JSON.
CriticRequestFailed ==
    ~critic_env.request_ok \/ ~critic_env.wellformed

-----------------------------------------------------------------------------
(* C1: after k iterations the Context is the seed followed, in iteration  *)
(* order, by the block "\n\n[Extension i]: " + improved_version_i of      *)
(* exactly the iterations i <= k whose review score was >= 7, labelled    *)
(* with the 1-based iteration index; so the seed is a prefix of the       *)
(* Context and the Context only ever grows at its end.                    *)
C1_ContextIsSeedPlusAcceptedBlocks ==
    /\ [](Started => /\ current_context = ExpectedContext(i)
                     /\ IsPrefix(original_text, current_context))
    /\ [][IsPrefix(current_context, current_context')]_vars

\* A finished run that rejected iteration 1 and accepted iteration 2: the
\* block is labelled 2 although it is the first accepted idea.
C1_Witness ==
    /\ pc = "complete"
    /\ Len(reviews) >= 2
    /\ ScoreBelow7(reviews[1])
    /\ ScoreAtLeast7(reviews[2])
    /\ reviews[2].improved_version = JStr(<<"y">>)
    /\ Len(final_ideas) = 1
    /\ Len(current_context) > Len(original_text)

(* C2: after every iteration k, and at the end of a run, AcceptedIdeas is *)
(* the sequence, in iteration order, of the improved_version values of    *)
(* the iterations i <= k whose review score was >= 7 (7 included, 6 and 0 *)
(* excluded), and no element is ever removed or reordered.                *)
C2_AcceptedIdeasAreTheAcceptedReviews ==
    /\ [](Started => final_ideas = ExpectedIdeas(i))
    /\ [][IsPrefix(final_ideas, final_ideas')]_vars

\* A finished run with a score of exactly 7, a score of 6 and a score of 0.
C2_Witness ==
    /\ pc = "complete"
    /\ \E a, b, c \in 1..Len(reviews) :
         /\ reviews[a].score = JInt(7)
         /\ reviews[b].score = JInt(6)
         /\ reviews[c].score = JInt(0)
    /\ Len(final_ideas) = 1

(* C3: when the Critic's request fails or its response cannot be decoded, *)
(* the review has score 0 and improved_version equal to the candidate     *)
(* passed in, and the iteration leaves Context and AcceptedIdeas as they  *)
(* were.                                                                  *)
C3_CriticFailureIsZeroScoreRejection ==
    /\ []((pc = "decide" /\ CriticRequestFailed) =>
            /\ review.score = JInt(0)
            /\ review.improved_version = JStr(raw_idea))
    /\ [][(pc = "decide" /\ CriticRequestFailed) =>
            /\ current_context' = current_context
            /\ final_ideas' = final_ideas]_vars

\* An iteration whose Critic response was no JSON has been decided, after an
\* earlier iteration had been accepted.
C3_Witness ==
    /\ pc = "gen"
    /\ i >= 2
    /\ critic_env.request_ok /\ ~critic_env.wellformed
    /\ raw_idea # << >>
    /\ reviews[i].improved_version = JStr(raw_idea)
    /\ final_ideas # << >>

(* C4: once a run has started, no failure in any iteration aborts it: the *)
(* run is never ended by an error.                                        *)
C4_NoFailureAbortsTheRun ==
    Started => (pc # "crashed" /\ error = "none")

(* C5: a Critic response that arrives without transport error but lacks   *)
(* the three-field shape is answered with the synthetic review: score 0   *)
(* and improved_version equal to the candidate.                           *)
C5_MalformedShapeIsZeroScoreReview ==
    (/\ pc = "decide"
     /\ critic_env.request_ok
     /\ critic_env.wellformed
     /\ ~WellShaped(critic_env.value))
    => (/\ review.score = JInt(0)
        /\ review.improved_version = JStr(raw_idea))

(* C6: when the Generator fails in iteration i, whether while building    *)
(* the model handle or while issuing the request, the run does not crash, *)
(* the Critic is invoked next, and the candidate is a non-empty text.     *)
C6_GeneratorFailureYieldsCandidate ==
    (/\ calls # << >>
     /\ calls[Len(calls)].fn = "generator"
     /\ (~gen_env.construct_ok \/ ~gen_env.request_ok))
    => (/\ pc = "critic"
        /\ raw_idea # << >>)

(* C7: a completed run has emitted exactly N log entries, with indices    *)
(* 1..N in increasing order, and each entry carries the score field of    *)
(* the review the Critic returned for that iteration, never a substitute. *)
C7_LogCarriesEachReviewsScore ==
    pc = "complete" =>
        /\ Len(log) = iterations
        /\ \A k \in 1..Len(log) :
             /\ log[k].index = k
             /\ log[k].score = reviews[k].score

(* C8: an iteration whose review score is below 7 leaves Context and      *)
(* AcceptedIdeas as they were and writes its log entry.                   *)
C8_RejectionChangesOnlyTheLog ==
    [][(pc = "decide" /\ ScoreBelow7(review)) =>
         /\ current_context' = current_context
         /\ final_ideas' = final_ideas
         /\ log' = Append(log, LogEntry(i, raw_idea, review))]_vars

\* A review with score 6 whose improved_version differs from the candidate
\* has been decided, after an accepted iteration.
C8_Witness ==
    /\ pc = "gen"
    /\ i >= 2
    /\ reviews[i].score = JInt(6)
    /\ reviews[i].improved_version = JStr(<<"y">>)
    /\ raw_idea # <<"y">>
    /\ Len(final_ideas) = 1
    /\ Len(log) = i

(* C9: the calls happen in the order Generator(1), Critic(1),             *)
(* Generator(2), Critic(2), ..., each once, and all 2N of them in a       *)
(* completed run; Generator(j) receives the Context and AcceptedIdeas     *)
(* that the decisions of iterations 1..j-1 produce, and Critic(j)         *)
(* receives the candidate Generator(j) returned and that same Context.    *)
C9_CallsAlternateAndCarryTheRunningState ==
    /\ \A k \in 1..Len(calls) :
         LET j == (k + 1) \div 2
         IN  /\ calls[k].index = j
             /\ IF k % 2 = 1
                THEN /\ calls[k].fn = "generator"
                     /\ calls[k].context = ExpectedContext(j - 1)
                     /\ calls[k].ideas = ExpectedIdeas(j - 1)
                ELSE /\ calls[k].fn = "critic"
                     /\ calls[k].idea = candidates[j]
                     /\ calls[k].context = calls[k - 1].context
    /\ pc = "complete" => Len(calls) = 2 * iterations
    /\ pc = "critic" => Len(calls) = 2 * i + 1
    /\ pc \in {"gen", "decide"} => Len(calls) = 2 * Len(reviews)

\* A finished run of three iterations whose second Generator call saw an
\* accepted idea.
C9_Witness ==
    /\ pc = "complete"
    /\ iterations = 3
    /\ Len(calls) = 6
    /\ calls[3].ideas # << >>
    /\ calls[4].context # original_text
    /\ calls[4].context = calls[6].context

(* C10: the synthetic review's critique names the model identifier the    *)
(* failing request was issued against: the alternate identifier when the  *)
(* handle was built with the alternate model.                             *)
C10_CritiqueNamesTheModelUsed ==
    (pc = "decide" /\ path = "except")
    => review.critique.s[2] = handle

====
